---- MODULE Spec2Model ----
(***************************************************************************)
(* Model of src/src/videoextendprompt.py: discovery of image pairs         *)
(* (find_image_pairs), answer extraction (extract_samp_content) and the    *)
(* driver (process_folder / process_pair).                                 *)
(*                                                                         *)
(* File and folder names are sequences of character codes, so that         *)
(* Path.suffix, str.lower and the ordering of str / Path are computed, not *)
(* assumed.  Backend responses and answers are sequences of tokens: the    *)
(* opening tag, the closing tag, whitespace characters and other text.     *)
(***************************************************************************)
EXTENDS Integers, Sequences, FiniteSets, TLC

VARIABLES
    tree,          \* set of paths of the regular files below the root
    rootOk,        \* whether the root is a directory that can be listed
    stack,         \* rglob: per directory level, the subdirectories still to visit
    pending,       \* rglob: entries of the directory being listed, not yet yielded
    folder_images, \* find_image_pairs' dict "folder_images", in insertion order
    image_pairs,   \* result of find_image_pairs
    phase,         \* position of the run
    failure,       \* which call raised out of process_folder ("" when none)
    pairIdx,       \* process_folder: index of the pair being processed
    modelIdx,      \* process_pair: index in MODELS of the next backend
    full_prompt,   \* process_folder's local full_prompt
    prompt,        \* process_pair's local name "prompt"
    report,        \* process_pair's dict "report", in insertion order
    calls,         \* every ask() call made: prompt, pair, model, outcome
    writes,        \* every open(video_prompt.md, "w") attempted: folder, outcome
    files,         \* content of video_prompt.md per folder
    composed,      \* number of make_full_prompt calls that returned
    noPairsMsg,    \* whether "No image pairs found!" was printed
    text,          \* extract_samp_content: the input
    out,           \* extract_samp_content(text)
    out2,          \* extract_samp_content(out)
    epc,           \* position of the extraction run
    data,          \* process_data: the argument data of the last call
    config,        \* process_data: the argument config (<<>> for None)
    debug,         \* process_data: the argument debug
    loggerLevel,   \* logger.level of the module's logger
    levelBefore,   \* logger.level when the last call was entered
    level0,        \* logger.level before the first call
    result,        \* what the last call returned (<<>> when it returned nothing)
    outcome,       \* how the last call ended: "returned" or "raised"
    ncalls         \* number of process_data calls made

vars == << tree, rootOk, stack, pending, folder_images, image_pairs, phase, failure,
           pairIdx, modelIdx, full_prompt, prompt, report, calls, writes,
           files, composed, noPairsMsg, text, out, out2, epc,
           data, config, debug, loggerLevel, levelBefore, level0, result,
           outcome, ncalls >>

findVars == << tree, rootOk, stack, pending, folder_images, image_pairs >>
runVars == << phase, failure, pairIdx, modelIdx, full_prompt, prompt, report,
              calls, writes, files, composed, noPairsMsg >>
extractVars == << text, out, out2, epc >>
dataVars == << data, config, debug, loggerLevel, levelBefore, level0, result,
               outcome, ncalls >>

(***************************************************************************)
(* Bounds                                                                  *)
(***************************************************************************)
\* largest number of regular files in a tree of SpecFind
MaxFiles ==
    4
\* largest number of regular files in a tree of Spec
MaxRunFiles ==
    4
\* longest input text of SpecExtract, in tokens
MaxLen ==
    5
\* longest data list of SpecData
MaxData ==
    2
\* largest number of process_data calls in a run of SpecData
MaxCalls ==
    3

(***************************************************************************)
(* Strings: sequences of character codes                                   *)
(***************************************************************************)
\* str.lower() on ASCII
LowerChar(c) ==
    IF c >= 65 /\ c <= 90 THEN c + 32 ELSE c

Lower(s) ==
    [i \in 1..Len(s) |-> LowerChar(s[i])]

\* str.__lt__: by code point, a proper prefix is smaller
StrLess(a, b) ==
    \E k \in 1..(Len(b)) :
        /\ \A i \in 1..(k - 1) : i <= Len(a) /\ a[i] = b[i]
        /\ k - 1 <= Len(a)
        /\ \/ k > Len(a)
           \/ a[k] < b[k]

\* str.rfind("."), 1-based, 0 when absent
RFindDot(s) ==
    LET ds == {i \in 1..Len(s) : s[i] = 46}
    IN IF ds = {} THEN 0 ELSE CHOOSE i \in ds : \A j \in ds : j <= i

\* PurePath.suffix
Suffix(name) ==
    LET i == RFindDot(name)
    IN IF 1 < i /\ i < Len(name) THEN SubSeq(name, i, Len(name)) ELSE <<>>

(***************************************************************************)
(* Paths: sequences of names, the root first                               *)
(***************************************************************************)
Name(p) == p[Len(p)]
Parent(p) == SubSeq(p, 1, Len(p) - 1)

\* PurePath.__lt__ on a case-sensitive flavour: the parts, compared as a tuple
PathLess(p, q) ==
    \E k \in 1..(Len(q)) :
        /\ \A i \in 1..(k - 1) : i <= Len(p) /\ p[i] = q[i]
        /\ k - 1 <= Len(p)
        /\ \/ k > Len(p)
           \/ StrLess(p[k], q[k])

\* the names used by the trees: "r", "b", "z", "a", "0.png" (a directory)
NameR == <<114>>
NameB == <<98>>
NameZ == <<122>>
NameA == <<97>>
NameD == <<48, 46, 112, 110, 103>>

Root == <<NameR>>
DirB == <<NameR, NameB>>
DirZ == <<NameR, NameZ>>
DirZA == <<NameR, NameZ, NameA>>
DirBD == <<NameR, NameB, NameD>>

Dirs == {Root, DirB, DirZ, DirZA, DirBD}
SubDirs(d) == {s \in Dirs : Len(s) = Len(d) + 1 /\ Parent(s) = d}

\* folders that may hold regular files
FileDirs == {Root, DirB, DirZA}

\* ".png", "1.png", "2.JPG", "3.jpeg", "9.txt"
FileNames ==
    { <<46, 112, 110, 103>>,
      <<49, 46, 112, 110, 103>>,
      <<50, 46, 74, 80, 71>>,
      <<51, 46, 106, 112, 101, 103>>,
      <<57, 46, 116, 120, 116>> }

\* "1.png", "2.JPG"
RunFileNames ==
    { <<49, 46, 112, 110, 103>>,
      <<50, 46, 74, 80, 71>> }

FilePaths(names) == {Append(d, n) : d \in FileDirs, n \in names}

Trees(names, max) == {t \in SUBSET FilePaths(names) : Cardinality(t) <= max}

\* Path.is_file
IsFile(p) == p \in tree

\* the entries a directory lists
Entries(d) == {p \in tree : Parent(p) = d} \cup SubDirs(d)

(***************************************************************************)
(* folder.rglob("*"): a depth-first walk; every directory lists its        *)
(* entries in an order the filesystem chooses                              *)
(***************************************************************************)
RECURSIVE Trim(_)
Trim(st) ==
    IF st # <<>> /\ st[Len(st)] = {} THEN Trim(SubSeq(st, 1, Len(st) - 1)) ELSE st

Exhausted == pending = {} /\ stack = <<>>

(***************************************************************************)
(* find_image_pairs                                                        *)
(***************************************************************************)
\* ".png", ".jpg", ".jpeg"
image_extensions ==
    { <<46, 112, 110, 103>>,
      <<46, 106, 112, 103>>,
      <<46, 106, 112, 101, 103>> }

\* a plausible slip: the is_file() test left out
IsImageAnyEntry(p) ==
    Lower(Suffix(Name(p))) \in image_extensions

\* line 85
IsImage(p) ==
    IsFile(p) /\ Lower(Suffix(Name(p))) \in image_extensions

\* folder_images[parent].append(img_path), creating the list when absent
AddImage(fi, p) ==
    IF \E i \in 1..Len(fi) : fi[i].parent = Parent(p)
    THEN [i \in 1..Len(fi) |->
             IF fi[i].parent = Parent(p)
             THEN [fi[i] EXCEPT !.images = Append(@, p)]
             ELSE fi[i]]
    ELSE Append(fi, [parent |-> Parent(p), images |-> <<p>>])

\* the key of sorted(folder_images.values(), key=lambda x: x[0].name)
SortKey(images) == Name(images[1])

\* sorted(..., key=...) is stable: equal keys keep their order
RECURSIVE InsertByKey(_, _)
InsertByKey(sorted, x) ==
    IF sorted = <<>> THEN <<x>>
    ELSE IF StrLess(SortKey(x), SortKey(Head(sorted)))
         THEN <<x>> \o sorted
         ELSE <<Head(sorted)>> \o InsertByKey(Tail(sorted), x)

RECURSIVE SortedByKey(_)
SortedByKey(lists) ==
    IF lists = <<>> THEN <<>>
    ELSE InsertByKey(SortedByKey(SubSeq(lists, 1, Len(lists) - 1)), lists[Len(lists)])

\* sorted(images): Path ordering
RECURSIVE InsertPath(_, _)
InsertPath(sorted, p) ==
    IF sorted = <<>> THEN <<p>>
    ELSE IF PathLess(p, Head(sorted))
         THEN <<p>> \o sorted
         ELSE <<Head(sorted)>> \o InsertPath(Tail(sorted), p)

RECURSIVE SortedPaths(_)
SortedPaths(images) ==
    IF images = <<>> THEN <<>>
    ELSE InsertPath(SortedPaths(SubSeq(images, 1, Len(images) - 1)), images[Len(images)])

\* the pair of one folder's list
PairOf(images) ==
    LET sorted_images == SortedPaths(images)
    IN << sorted_images[1], sorted_images[Len(sorted_images)] >>

\* a plausible slip: "len(images) >= 1"
RECURSIVE PairsFromAnyImage(_)
PairsFromAnyImage(lists) ==
    IF lists = <<>> THEN <<>>
    ELSE <<PairOf(Head(lists))>> \o PairsFromAnyImage(Tail(lists))

RECURSIVE PairsFrom(_)
PairsFrom(lists) ==
    IF lists = <<>> THEN <<>>
    ELSE IF Len(Head(lists)) >= 2
         THEN <<PairOf(Head(lists))>> \o PairsFrom(Tail(lists))
         ELSE PairsFrom(Tail(lists))

\* lines 91-98: from the grouped images to the returned list
BuildPairs(fi) ==
    PairsFrom(SortedByKey([i \in 1..Len(fi) |-> fi[i].images]))

\* rglob moves on to the next directory of the walk
EnterDir ==
    /\ phase = "Discover"
    /\ pending = {}
    /\ stack # <<>>
    /\ \E d \in stack[Len(stack)] :
          /\ pending' = Entries(d)
          /\ stack' = Trim(Append([stack EXCEPT ![Len(stack)] = @ \ {d}], SubDirs(d)))
    /\ UNCHANGED << tree, rootOk, folder_images, image_pairs >>
    /\ UNCHANGED runVars
    /\ UNCHANGED extractVars
    /\ UNCHANGED dataVars

\* one iteration of "for img_path in folder.rglob('*')"
ScanEntry ==
    /\ phase = "Discover"
    /\ \E e \in pending :
          /\ pending' = pending \ {e}
          /\ folder_images' = IF IsImage(e) THEN AddImage(folder_images, e)
                              ELSE folder_images
    /\ UNCHANGED << tree, rootOk, stack, image_pairs >>
    /\ UNCHANGED runVars
    /\ UNCHANGED extractVars
    /\ UNCHANGED dataVars

\* find_image_pairs returns
FindPairs ==
    /\ phase = "Discover"
    /\ Exhausted
    /\ image_pairs' = BuildPairs(folder_images)
    /\ phase' = "Found"
    /\ UNCHANGED << tree, rootOk, stack, pending, folder_images >>
    /\ UNCHANGED << failure, pairIdx, modelIdx, full_prompt, prompt, report,
                    calls, writes, files, composed, noPairsMsg >>
    /\ UNCHANGED extractVars
    /\ UNCHANGED dataVars

InitRunVars ==
    /\ phase = "Discover"
    /\ failure = ""
    /\ pairIdx = 0
    /\ modelIdx = 0
    /\ full_prompt = <<>>
    /\ prompt = <<>>
    /\ report = <<>>
    /\ calls = <<>>
    /\ writes = <<>>
    /\ composed = 0
    /\ noPairsMsg = FALSE

InitNoExtract ==
    /\ text = <<>>
    /\ out = <<>>
    /\ out2 = <<>>
    /\ epc = "idle"

\* process_data is not called
InitNoData ==
    /\ data = <<>>
    /\ config = <<>>
    /\ debug = FALSE
    /\ loggerLevel = 0
    /\ levelBefore = 0
    /\ level0 = 0
    /\ result = <<>>
    /\ outcome = "idle"
    /\ ncalls = 0

InitWalk ==
    /\ stack = IF rootOk THEN << {Root} >> ELSE <<>>
    /\ pending = {}
    /\ folder_images = <<>>
    /\ image_pairs = <<>>

InitFind ==
    /\ rootOk \in BOOLEAN
    /\ tree \in (IF rootOk THEN Trees(FileNames, MaxFiles) ELSE {{}})
    /\ InitWalk
    /\ InitRunVars
    /\ files = [d \in Dirs |-> [exists |-> FALSE, content |-> <<>>]]
    /\ InitNoExtract
    /\ InitNoData

NextFind ==
    \/ EnterDir
    \/ ScanEntry
    \/ FindPairs

SpecFind == InitFind /\ [][NextFind]_vars

(***************************************************************************)
(* extract_samp_content                                                    *)
(***************************************************************************)
OPEN == "<samp>"
CLOSE == "</samp>"
Whitespace == {" ", "\n"}
Tokens == {OPEN, CLOSE, " ", "\n", "a", "b"}

RECURSIVE SeqsUpTo(_, _)
SeqsUpTo(S, n) ==
    IF n = 0 THEN {<<>>}
    ELSE LET shorter == SeqsUpTo(S, n - 1)
         IN shorter \cup {Append(t, x) : t \in {u \in shorter : Len(u) = n - 1}, x \in S}

MinOf(S) == CHOOSE x \in S : \A y \in S : x <= y
MaxOf(S) == CHOOSE x \in S : \A y \in S : y <= x

\* re.findall(r"<samp>(.*?)</samp>", text, re.DOTALL) from position pos on:
\* the leftmost opening tag that a closing tag follows, up to the nearest
\* closing tag; then on from behind that closing tag
RECURSIVE FindAll(_, _)
FindAll(t, pos) ==
    LET starts == {i \in pos..Len(t) :
                      t[i] = OPEN /\ \E j \in (i + 1)..Len(t) : t[j] = CLOSE}
    IN IF starts = {} THEN <<>>
       ELSE LET i == MinOf(starts)
                j == MinOf({k \in (i + 1)..Len(t) : t[k] = CLOSE})
            IN <<SubSeq(t, i + 1, j - 1)>> \o FindAll(t, j + 1)

\* a plausible slip: the first match instead of the last
SelectFirstMatch(samp_matches) ==
    samp_matches[1]

\* samp_matches[-1]
SelectMatch(samp_matches) ==
    samp_matches[Len(samp_matches)]

\* str.split(): the maximal runs of non-whitespace
RECURSIVE Split(_)
Split(t) ==
    IF t = <<>> THEN <<>>
    ELSE IF Head(t) \in Whitespace THEN Split(Tail(t))
    ELSE LET stops == {i \in 1..Len(t) : t[i] \in Whitespace}
             n == IF stops = {} THEN Len(t) ELSE MinOf(stops) - 1
         IN <<SubSeq(t, 1, n)>> \o Split(SubSeq(t, n + 1, Len(t)))

\* " ".join(words)
RECURSIVE Join(_)
Join(words) ==
    IF words = <<>> THEN <<>>
    ELSE IF Len(words) = 1 THEN words[1]
    ELSE words[1] \o <<" ">> \o Join(Tail(words))

RECURSIVE ReplaceDouble(_)
ReplaceDouble(t) ==
    IF Len(t) < 2 THEN t
    ELSE IF t[1] = " " /\ t[2] = " " THEN <<" ">> \o ReplaceDouble(Tail(Tail(t)))
    ELSE <<Head(t)>> \o ReplaceDouble(Tail(t))

RECURSIVE Strip(_)
Strip(t) ==
    IF t = <<>> THEN t
    ELSE IF Head(t) \in Whitespace THEN Strip(Tail(t))
    ELSE IF t[Len(t)] \in Whitespace THEN Strip(SubSeq(t, 1, Len(t) - 1))
    ELSE t

\* a plausible slip: content.replace("  ", " ").strip()
NormalizeReplace(content) ==
    Strip(ReplaceDouble(content))

\* " ".join(content.split())
Normalize(content) ==
    Join(Split(content))

extract_samp_content(t) ==
    IF t = <<>> THEN <<>>
    ELSE LET samp_matches == FindAll(t, 1)
             content == IF samp_matches # <<>> THEN SelectMatch(samp_matches) ELSE t
         IN Normalize(content)

\* extract_samp_content is applied to the input
Extract ==
    /\ epc = "start"
    /\ out' = extract_samp_content(text)
    /\ epc' = "once"
    /\ UNCHANGED << text, out2 >>
    /\ UNCHANGED findVars
    /\ UNCHANGED runVars
    /\ UNCHANGED dataVars

\* extract_samp_content is applied to its own result
ExtractAgain ==
    /\ epc = "once"
    /\ out2' = extract_samp_content(out)
    /\ epc' = "twice"
    /\ UNCHANGED << text, out >>
    /\ UNCHANGED findVars
    /\ UNCHANGED runVars
    /\ UNCHANGED dataVars

InitExtract ==
    /\ text \in SeqsUpTo(Tokens, MaxLen)
    /\ out = <<>>
    /\ out2 = <<>>
    /\ epc = "start"
    /\ rootOk = TRUE
    /\ tree = {}
    /\ InitWalk
    /\ InitRunVars
    /\ files = [d \in Dirs |-> [exists |-> FALSE, content |-> <<>>]]
    /\ InitNoData

NextExtract ==
    \/ Extract
    \/ ExtractAgain

SpecExtract == InitExtract /\ [][NextExtract]_vars

(***************************************************************************)
(* make_full_prompt, get_full_answer, process_pair, process_folder         *)
(***************************************************************************)
MODELS ==
    << "openrouter/google/gemini-2.0-flash-exp:free",
       "openrouter/openai/gpt-4o-mini",
       "openrouter/anthropic/claude-3-haiku:beta",
       "openrouter/x-ai/grok-2-vision-1212" >>

\* the fixed instruction block of make_full_prompt
base_prompt == "Inside the <aside> XML tag, you may think aloud. ..."

\* what load_template("video").prompt may hold
Templates ==
    { <<"Video: ", "$input">>, <<"$input", " --- ", "$input">> }

\* str.replace("$input", base_prompt)
ReplaceInput(tpl) ==
    [i \in 1..Len(tpl) |-> IF tpl[i] = "$input" THEN base_prompt ELSE tpl[i]]

make_full_prompt(tpl) ==
    ReplaceInput(tpl)

\* what ask() may return
RawResponses ==
    { <<"<aside>", "a", "</aside>", OPEN, " ", "a", "\n", "b", CLOSE>>,
      <<"b", " ", " ", "b", "\n">> }

get_full_answer(response) ==
    extract_samp_content(response)

Folder(pair) == Parent(pair[1])

\* the chunks process_pair writes for a report, in the dict's order
RECURSIVE ReportText(_)
ReportText(rep) ==
    IF rep = <<>> THEN <<>>
    ELSE <<"## ", Head(rep).model, "\n\n">> \o Head(rep).answer \o <<"\n\n">>
         \o ReportText(Tail(rep))

\* what a write that raised may leave behind: the blocks written before it
PartialTexts(rep) == {ReportText(SubSeq(rep, 1, n)) : n \in 0..(Len(rep) - 1)}

\* a plausible slip: open(..., "a")
OpenedForAppend(old) ==
    old

\* open(..., "w") truncates the file
OpenedForWrite(old) ==
    <<>>

\* a plausible slip: the "return" after the message left out
DiscoverNoReturn ==
    /\ phase = "Discover"
    /\ Exhausted
    /\ image_pairs' = BuildPairs(folder_images)
    /\ folder_images' = <<>>
    /\ noPairsMsg' = (image_pairs' = <<>>)
    /\ phase' = "BuildPrompt"
    /\ UNCHANGED << tree, rootOk, stack, pending >>
    /\ UNCHANGED << failure, pairIdx, modelIdx, full_prompt, prompt, report,
                    calls, writes, files, composed >>
    /\ UNCHANGED extractVars
    /\ UNCHANGED dataVars

\* lines 148-151: find_image_pairs has returned to process_folder (its local
\* folder_images is gone)
Discover ==
    /\ phase = "Discover"
    /\ Exhausted
    /\ image_pairs' = BuildPairs(folder_images)
    /\ folder_images' = <<>>
    /\ IF image_pairs' = <<>>
       THEN phase' = "Done" /\ noPairsMsg' = TRUE
       ELSE phase' = "BuildPrompt" /\ noPairsMsg' = noPairsMsg
    /\ UNCHANGED << tree, rootOk, stack, pending >>
    /\ UNCHANGED << failure, pairIdx, modelIdx, full_prompt, prompt, report,
                    calls, writes, files, composed >>
    /\ UNCHANGED extractVars
    /\ UNCHANGED dataVars

\* line 153: full_prompt = make_full_prompt(); load_template may raise
BuildPrompt ==
    /\ phase = "BuildPrompt"
    /\ \/ \E tpl \in Templates :
             /\ full_prompt' = make_full_prompt(tpl)
             /\ composed' = composed + 1
             /\ phase' = "ForEach"
             /\ failure' = failure
       \/ /\ phase' = "Failed"
          /\ failure' = "template"
          /\ UNCHANGED << full_prompt, composed >>
    /\ UNCHANGED findVars
    /\ UNCHANGED << pairIdx, modelIdx, prompt, report, calls, writes, files,
                    noPairsMsg >>
    /\ UNCHANGED extractVars
    /\ UNCHANGED dataVars

\* a plausible slip: the prompt composed again for every pair
CallProcessPairRecompose ==
    /\ phase = "ForEach"
    /\ pairIdx < Len(image_pairs)
    /\ pairIdx' = pairIdx + 1
    /\ \E tpl \in Templates : full_prompt' = make_full_prompt(tpl)
    /\ composed' = composed + 1
    /\ prompt' = full_prompt'
    /\ report' = <<>>
    /\ modelIdx' = 1
    /\ phase' = "Query"
    /\ UNCHANGED findVars
    /\ UNCHANGED << failure, calls, writes, files, noPairsMsg >>
    /\ UNCHANGED extractVars
    /\ UNCHANGED dataVars

\* a plausible slip: "prompt" shared between process_pair and its caller
CallProcessPairStalePrompt ==
    /\ phase = "ForEach"
    /\ pairIdx < Len(image_pairs)
    /\ pairIdx' = pairIdx + 1
    /\ prompt' = IF pairIdx = 0 THEN full_prompt ELSE prompt
    /\ report' = <<>>
    /\ modelIdx' = 1
    /\ phase' = "Query"
    /\ UNCHANGED findVars
    /\ UNCHANGED << failure, full_prompt, calls, writes, files, composed,
                    noPairsMsg >>
    /\ UNCHANGED extractVars
    /\ UNCHANGED dataVars

\* lines 154-155 and 121-124: process_pair(full_prompt, pair) is entered
CallProcessPair ==
    /\ phase = "ForEach"
    /\ pairIdx < Len(image_pairs)
    /\ pairIdx' = pairIdx + 1
    /\ prompt' = full_prompt
    /\ report' = <<>>
    /\ modelIdx' = 1
    /\ phase' = "Query"
    /\ UNCHANGED findVars
    /\ UNCHANGED << failure, full_prompt, calls, writes, files, composed,
                    noPairsMsg >>
    /\ UNCHANGED extractVars
    /\ UNCHANGED dataVars

\* the record of one ask() call
Call(model, ok, answer) ==
    [prompt |-> prompt, pair |-> image_pairs[pairIdx], model |-> model,
     ok |-> ok, answer |-> answer]

\* a plausible slip: a failed backend gets an (empty) entry in the report
QueryStoreFailure ==
    /\ phase = "Query"
    /\ LET model == MODELS[modelIdx]
       IN \/ \E response \in RawResponses :
                LET answer == get_full_answer(response)
                IN /\ report' = Append(report, [model |-> model, answer |-> answer])
                   /\ calls' = Append(calls, Call(model, TRUE, answer))
          \/ /\ calls' = Append(calls, Call(model, FALSE, <<>>))
             /\ report' = Append(report, [model |-> model, answer |-> <<>>])
    /\ modelIdx' = modelIdx + 1
    /\ phase' = IF modelIdx = Len(MODELS) THEN "Report" ELSE "Query"
    /\ UNCHANGED findVars
    /\ UNCHANGED << failure, pairIdx, full_prompt, prompt, writes, files,
                    composed, noPairsMsg >>
    /\ UNCHANGED extractVars
    /\ UNCHANGED dataVars

\* a plausible slip: the first failure ends the loop over MODELS
QueryStopOnFailure ==
    /\ phase = "Query"
    /\ LET model == MODELS[modelIdx]
       IN \/ \E response \in RawResponses :
                LET answer == get_full_answer(response)
                IN /\ report' = Append(report, [model |-> model, answer |-> answer])
                   /\ calls' = Append(calls, Call(model, TRUE, answer))
                   /\ modelIdx' = modelIdx + 1
                   /\ phase' = IF modelIdx = Len(MODELS) THEN "Report" ELSE "Query"
          \/ /\ calls' = Append(calls, Call(model, FALSE, <<>>))
             /\ report' = report
             /\ modelIdx' = modelIdx + 1
             /\ phase' = "Report"
    /\ UNCHANGED findVars
    /\ UNCHANGED << failure, pairIdx, full_prompt, prompt, writes, files,
                    composed, noPairsMsg >>
    /\ UNCHANGED extractVars
    /\ UNCHANGED dataVars

\* lines 125-132: one iteration of "for model in MODELS"; ask() returns a
\* response or raises, and the exception is caught and printed
Query ==
    /\ phase = "Query"
    /\ LET model == MODELS[modelIdx]
       IN \/ \E response \in RawResponses :
                LET answer == get_full_answer(response)
                IN /\ report' = Append(report, [model |-> model, answer |-> answer])
                   /\ calls' = Append(calls, Call(model, TRUE, answer))
          \/ /\ calls' = Append(calls, Call(model, FALSE, <<>>))
             /\ report' = report
    /\ modelIdx' = modelIdx + 1
    /\ phase' = IF modelIdx = Len(MODELS) THEN "Report" ELSE "Query"
    /\ UNCHANGED findVars
    /\ UNCHANGED << failure, pairIdx, full_prompt, prompt, writes, files,
                    composed, noPairsMsg >>
    /\ UNCHANGED extractVars
    /\ UNCHANGED dataVars

\* lines 133-136: the report is written; open() or a write may raise, and
\* nothing in process_pair or process_folder catches that
Report ==
    /\ phase = "Report"
    /\ LET folder == Folder(image_pairs[pairIdx])
           old == files[folder]
           opened == [exists |-> TRUE, content |-> OpenedForWrite(old.content)]
       IN \/ /\ writes' = Append(writes, [folder |-> folder, ok |-> TRUE])
             /\ files' = [files EXCEPT ![folder] =
                             [opened EXCEPT !.content = @ \o ReportText(report)]]
             /\ prompt' = IF report = <<>> THEN prompt
                          ELSE report[Len(report)].answer
             /\ phase' = "ForEach"
             /\ failure' = failure
          \/ /\ writes' = Append(writes, [folder |-> folder, ok |-> FALSE])
             /\ files' = files
             /\ prompt' = prompt
             /\ phase' = "Failed"
             /\ failure' = "report"
          \/ /\ report # <<>>
             /\ writes' = Append(writes, [folder |-> folder, ok |-> FALSE])
             /\ \E part \in PartialTexts(report) :
                   files' = [files EXCEPT ![folder] =
                                [opened EXCEPT !.content = @ \o part]]
             /\ prompt' = prompt
             /\ phase' = "Failed"
             /\ failure' = "report"
    /\ UNCHANGED findVars
    /\ UNCHANGED << pairIdx, modelIdx, full_prompt, report, calls, composed,
                    noPairsMsg >>
    /\ UNCHANGED extractVars
    /\ UNCHANGED dataVars

\* the loop of line 154 is exhausted: process_folder returns
Finish ==
    /\ phase = "ForEach"
    /\ pairIdx = Len(image_pairs)
    /\ phase' = "Done"
    /\ UNCHANGED findVars
    /\ UNCHANGED << failure, pairIdx, modelIdx, full_prompt, prompt, report,
                    calls, writes, files, composed, noPairsMsg >>
    /\ UNCHANGED extractVars
    /\ UNCHANGED dataVars

\* the reports lying in the folders before the run
InitialFiles ==
    [d \in Dirs |->
        IF d \in {DirB, DirZA}
        THEN [exists |-> TRUE, content |-> <<"## old", "\n\n", "stale", "\n\n">>]
        ELSE [exists |-> FALSE, content |-> <<>>]]

Init ==
    /\ rootOk \in BOOLEAN
    /\ tree \in (IF rootOk THEN Trees(RunFileNames, MaxRunFiles) ELSE {{}})
    /\ InitWalk
    /\ InitRunVars
    /\ files = InitialFiles
    /\ InitNoExtract
    /\ InitNoData

Next ==
    \/ EnterDir
    \/ ScanEntry
    \/ Discover
    \/ BuildPrompt
    \/ CallProcessPair
    \/ Query
    \/ Report
    \/ Finish

Spec == Init /\ [][Next]_vars

(***************************************************************************)
(* process_data (src/src/twat_video/twat_video.py)                         *)
(***************************************************************************)
\* logging.DEBUG
DEBUG ==
    10

\* the levels the module's logger may have before a call: NOTSET, DEBUG,
\* INFO, WARNING
Levels == {0, DEBUG, 20, 30}

Items == {"item1", "item2"}

DataLists == SeqsUpTo(Items, MaxData)

\* Config objects, by their field name; <<>> stands for None
Configs ==
    {<<>>} \cup {<<[name |-> n]>> : n \in {"default_config", "test_processing"}}

\* a plausible slip: the text of the log message of line 88 used for the field
ResultNoConfigText(d, c) ==
    [status |-> "processed",
     item_count |-> Len(d),
     config_name |-> IF c # <<>> THEN c[1].name ELSE "No Config",
     first_item |-> IF d # <<>> THEN d[1] ELSE "None"]

\* lines 94-99: the result dictionary
Result(d, c) ==
    [status |-> "processed",
     item_count |-> Len(d),
     config_name |-> IF c # <<>> THEN c[1].name ELSE "N/A",
     first_item |-> IF d # <<>> THEN d[1] ELSE "None"]

\* lines 77-81: the level inside the call
LevelInside(level, dbg) ==
    IF dbg THEN DEBUG ELSE level

\* lines 103-105: the level when the call returns; current_level is the level
\* read at line 79
LevelAtReturn(level, dbg) ==
    LET current_level == level
    IN IF dbg THEN current_level ELSE LevelInside(level, dbg)

\* one call of process_data(d, c, debug=dbg)
ProcessData ==
    /\ ncalls < MaxCalls
    /\ \E d \in DataLists, c \in Configs, dbg \in BOOLEAN :
          /\ data' = d
          /\ config' = c
          /\ debug' = dbg
          /\ levelBefore' = loggerLevel
          /\ IF d = <<>>
             THEN /\ outcome' = "raised"
                  /\ result' = <<>>
                  /\ loggerLevel' = LevelInside(loggerLevel, dbg)
             ELSE /\ outcome' = "returned"
                  /\ result' = <<Result(d, c)>>
                  /\ loggerLevel' = LevelAtReturn(loggerLevel, dbg)
    /\ ncalls' = ncalls + 1
    /\ UNCHANGED level0
    /\ UNCHANGED findVars
    /\ UNCHANGED runVars
    /\ UNCHANGED extractVars

InitData ==
    /\ loggerLevel \in Levels
    /\ levelBefore = loggerLevel
    /\ level0 = loggerLevel
    /\ data = <<>>
    /\ config = <<>>
    /\ debug = FALSE
    /\ result = <<>>
    /\ outcome = "idle"
    /\ ncalls = 0
    /\ rootOk = TRUE
    /\ tree = {}
    /\ InitWalk
    /\ InitRunVars
    /\ files = [d \in Dirs |-> [exists |-> FALSE, content |-> <<>>]]
    /\ InitNoExtract

NextData ==
    ProcessData

SpecData == InitData /\ [][NextData]_vars

(***************************************************************************)
(* Claims about find_image_pairs (SpecFind)                                *)
(***************************************************************************)
\* "png", "jpg", "jpeg"
ExtensionWords ==
    { <<112, 110, 103>>, <<106, 112, 103>>, <<106, 112, 101, 103>> }

SameIgnoringCase(s, w) ==
    /\ Len(s) = Len(w)
    /\ \A i \in 1..Len(w) : s[i] = w[i] \/ s[i] = w[i] - 32

\* the name is a non-empty stem, a dot and one of the extensions in any case
HasImageExtension(name) ==
    \E k \in 2..(Len(name) - 1) :
        /\ name[k] = 46
        /\ \E w \in ExtensionWords : SameIgnoringCase(SubSeq(name, k + 1, Len(name)), w)

Qualifying(d) == {p \in tree : Parent(p) = d /\ HasImageExtension(Name(p))}

Smallest(S) == CHOOSE p \in S : \A q \in S \ {p} : PathLess(p, q)
Largest(S) == CHOOSE p \in S : \A q \in S \ {p} : PathLess(q, p)

PairsOfFolder(d) == {i \in 1..Len(image_pairs) : Parent(image_pairs[i][1]) = d}

\* C3: once find_image_pairs has returned, every directory that directly
\* contains at least two qualifying files has exactly one pair, (smallest
\* path, largest path) of its qualifying files, and every other directory
\* has none
C3_OnePairPerFolder ==
    phase = "Found" =>
        /\ \A i \in 1..Len(image_pairs) : Parent(image_pairs[i][1]) \in Dirs
        /\ \A d \in Dirs :
              IF Cardinality(Qualifying(d)) >= 2
              THEN /\ Cardinality(PairsOfFolder(d)) = 1
                   /\ \A i \in PairsOfFolder(d) :
                         image_pairs[i] = << Smallest(Qualifying(d)), Largest(Qualifying(d)) >>
              ELSE PairsOfFolder(d) = {}

\* C3 witness: a folder with three qualifying files and a non-qualifying
\* file got its pair while a folder with one qualifying file got none
C3_Witness ==
    /\ phase = "Found"
    /\ \E d \in Dirs :
          /\ Cardinality(Qualifying(d)) = 3
          /\ Cardinality({p \in tree : Parent(p) = d}) = 4
          /\ PairsOfFolder(d) # {}
    /\ Len(image_pairs) = 1

FolderName(pair) == Name(Parent(pair[1]))

\* C4 (as claimed): the returned pairs are in ascending order of the name of
\* their parent folder
C4_OrderedByFolderName ==
    phase = "Found" =>
        \A i, j \in 1..Len(image_pairs) :
            i < j => ~StrLess(FolderName(image_pairs[j]), FolderName(image_pairs[i]))

(***************************************************************************)
(* Claims about extract_samp_content (SpecExtract)                         *)
(***************************************************************************)
\* the closing tags that end an occurrence: an opening tag lies between the
\* closing tag before it (or the start) and it
MatchEnds(t) ==
    {j \in 1..Len(t) :
        /\ t[j] = CLOSE
        /\ \E i \in 1..(j - 1) :
              t[i] = OPEN /\ \A k \in (i + 1)..(j - 1) : t[k] # CLOSE}

\* the content of the last occurrence: from the first opening tag behind the
\* occurrence before it, up to the last closing tag that ends an occurrence
LastContent(t) ==
    LET e == MaxOf(MatchEnds(t))
        before == {j \in MatchEnds(t) : j < e}
        from == IF before = {} THEN 0 ELSE MaxOf(before)
        s == MinOf({i \in (from + 1)..(e - 1) : t[i] = OPEN})
    IN SubSeq(t, s + 1, e - 1)

NonWs(x) == x \notin Whitespace

\* the position of the k-th non-whitespace token of s
KthPos(s, k) ==
    CHOOSE i \in 1..Len(s) :
        NonWs(s[i]) /\ Cardinality({j \in 1..i : NonWs(s[j])}) = k

\* r is c with every run of whitespace collapsed to one space and the edges
\* stripped
IsNormalized(r, c) ==
    /\ SelectSeq(r, NonWs) = SelectSeq(c, NonWs)
    /\ \A i \in 1..Len(r) :
          r[i] \in Whitespace =>
              r[i] = " " /\ i > 1 /\ i < Len(r) /\ NonWs(r[i + 1])
    /\ \A k \in 1..(Len(SelectSeq(c, NonWs)) - 1) :
          (KthPos(r, k + 1) = KthPos(r, k) + 1) <=> (KthPos(c, k + 1) = KthPos(c, k) + 1)

\* C5: the result is the normalized content of the last occurrence when there
\* is one, else the normalized whole text, and empty for an empty text
C5_LastOccurrenceNormalized ==
    epc # "start" =>
        /\ text = <<>> => out = <<>>
        /\ MatchEnds(text) # {} => IsNormalized(out, LastContent(text))
        /\ MatchEnds(text) = {} => IsNormalized(out, text)

\* C5 witness: two occurrences with different contents, the last one chosen
C5_Witness ==
    /\ epc = "once"
    /\ Cardinality(MatchEnds(text)) = 2
    /\ out = <<"a">>
    /\ text[2] = CLOSE

Count(t, x) == Cardinality({i \in 1..Len(t) : t[i] = x})

AtMostOneTagSet(t) == Count(t, OPEN) <= 1 /\ Count(t, CLOSE) <= 1

\* C6: on a text with at most one set of tags, extracting from the result
\* gives the result again
C6_Idempotent ==
    (epc = "twice" /\ AtMostOneTagSet(text)) => out2 = out

\* C6 witness: a tagged text with whitespace to collapse was extracted twice
C6_Witness ==
    /\ epc = "twice"
    /\ Count(text, OPEN) = 1
    /\ Count(text, CLOSE) = 1
    /\ MatchEnds(text) # {}
    /\ out # <<>>
    /\ out # LastContent(text)

(***************************************************************************)
(* Claims about process_pair and process_folder (Spec)                     *)
(***************************************************************************)
\* the ask() calls made for the k-th pair, in the order they were made
CallsOf(k) == SelectSeq(calls, LAMBDA c : c.pair = image_pairs[k])

ModelsOf(cs) == [i \in 1..Len(cs) |-> cs[i].model]

IsOk(c) == c.ok

\* how many backends must have been called for the k-th pair by now
Attempted(k) ==
    IF k < pairIdx \/ (k = pairIdx /\ phase # "Query") THEN Len(MODELS)
    ELSE IF k = pairIdx THEN modelIdx - 1
    ELSE 0

\* C1: for every pair the backends are called once each, in the order of
\* MODELS, whatever calls raised, and the answer record holds an entry for
\* exactly the backends whose call succeeded
C1_EachBackendOnceInOrder ==
    /\ \A k \in 1..Len(image_pairs) :
          ModelsOf(CallsOf(k)) = SubSeq(MODELS, 1, Attempted(k))
    /\ phase \in {"Query", "Report"} =>
          LET ok == SelectSeq(CallsOf(pairIdx), IsOk)
          IN report = [i \in 1..Len(ok) |->
                          [model |-> ok[i].model, answer |-> ok[i].answer]]

\* C1 witness: backend 2 of 4 raised, and the record holds backends 1, 3, 4
C1_Witness ==
    /\ phase = "Report"
    /\ [i \in 1..Len(CallsOf(pairIdx)) |-> CallsOf(pairIdx)[i].ok]
          = <<TRUE, FALSE, TRUE, TRUE>>
    /\ [i \in 1..Len(report) |-> report[i].model] = <<MODELS[1], MODELS[3], MODELS[4]>>

WriteAttempted(k) == \E i \in 1..Len(writes) : writes[i].folder = Folder(image_pairs[k])

\* C2 (as claimed): when the run has ended after a pair's report could not be
\* written, every discovered pair was still queried and had its write
\* attempted
C2_LaterPairsProcessed ==
    (phase \in {"Done", "Failed"} /\ failure # "template") =>
        \A k \in 1..Len(image_pairs) :
            Len(CallsOf(k)) = Len(MODELS) /\ WriteAttempted(k)

\* the block of backend m in the report of the k-th pair, from what ask()
\* returned for it
Block(k, m) ==
    LET got == SelectSeq(CallsOf(k), LAMBDA c : c.ok /\ c.model = MODELS[m])
    IN IF got = <<>> THEN <<>>
       ELSE <<"## ", MODELS[m], "\n\n">> \o got[1].answer \o <<"\n\n">>

ExpectedText(k) == Block(k, 1) \o Block(k, 2) \o Block(k, 3) \o Block(k, 4)

\* C7: after a report was written, the file holds exactly one block per
\* backend that succeeded for that pair, in the order of MODELS, and nothing
\* of what it held before
C7_ReportContent ==
    \A k \in 1..Len(writes) :
        writes[k].ok =>
            /\ writes[k].folder = Folder(image_pairs[k])
            /\ files[writes[k].folder] = [exists |-> TRUE, content |-> ExpectedText(k)]

\* C7 witness: a report was written over an older one, for a pair with a
\* failed backend between two that succeeded
C7_Witness ==
    \E k \in 1..Len(writes) :
        /\ writes[k].ok
        /\ InitialFiles[writes[k].folder].exists
        /\ [i \in 1..Len(CallsOf(k)) |-> CallsOf(k)[i].ok] = <<TRUE, FALSE, TRUE, FALSE>>
        /\ files[writes[k].folder].content # <<>>

\* C8: a report is only written once all backends were attempted for its
\* pair, and once they were, the write is attempted whatever failed
C8_WriteAfterAllBackends ==
    /\ \A k \in 1..Len(writes) :
          /\ writes[k].folder = Folder(image_pairs[k])
          /\ ModelsOf(CallsOf(k)) = MODELS
    /\ \A k \in 1..Len(image_pairs) :
          Len(CallsOf(k)) = Len(MODELS) =>
              \/ k <= Len(writes)
              \/ k = pairIdx /\ phase = "Report" /\ ENABLED Report

\* C8 witness: the write was attempted for a pair all of whose backends failed
C8_Witness ==
    \E k \in 1..Len(writes) :
        /\ Len(CallsOf(k)) = Len(MODELS)
        /\ \A i \in 1..Len(CallsOf(k)) : ~CallsOf(k)[i].ok

\* C9 (as claimed): a run over an existing root that ends normally has
\* composed the prompt exactly once
C9_ComposedOnceInEveryRun ==
    (phase = "Done" /\ rootOk) => composed = 1

\* the position of the run in Discover -> BuildPrompt -> ForEachPair{Query ->
\* Report} -> Done
StepNo ==
    CASE phase = "Discover" -> 0
      [] phase = "BuildPrompt" -> 1
      [] phase = "ForEach" -> 2 + 10 * pairIdx
      [] phase = "Query" -> 2 + 10 * (pairIdx - 1) + modelIdx
      [] phase = "Report" -> 2 + 10 * (pairIdx - 1) + 5
      [] OTHER -> 2 + 10 * (Len(image_pairs) + 1)

\* C9 (amended): the prompt is composed at most once; exactly once in a run
\* that found a pair and ended normally, never in a run that found none;
\* after discovery and before the first backend call; and the run only moves
\* forward through its steps
C9_ComposedOnceWhenPairs ==
    /\ [](/\ composed <= 1
          /\ phase = "Done" => composed = (IF image_pairs = <<>> THEN 0 ELSE 1)
          /\ calls # <<>> => composed = 1
          /\ composed = 1 => phase \notin {"Discover", "BuildPrompt"})
    /\ [][/\ StepNo' >= StepNo
          /\ phase # "Discover" => StepNo' > StepNo]_vars

\* C9 witness: a run over two pairs ended with the prompt composed once
C9_Witness ==
    phase = "Done" /\ Len(image_pairs) = 2 /\ composed = 1 /\ Len(calls) = 8

\* C10: every backend call of the run got the prompt that was composed
\* before the first call
C10_SamePrompt ==
    \A i \in 1..Len(calls) :
        /\ calls[i].prompt = full_prompt
        /\ calls[i].prompt = calls[1].prompt
        /\ \E tpl \in Templates : calls[i].prompt = make_full_prompt(tpl)

\* C10 witness: the second pair is being queried after the report loop of the
\* first pair had bound the name "prompt" to an answer
C10_Witness ==
    /\ Len(calls) > Len(MODELS)
    /\ calls[Len(MODELS)].ok
    /\ calls[Len(calls)].pair # calls[1].pair

\* C11: when discovery yields no pair, the run prints "No image pairs found!"
\* and ends normally, with no backend call made and no report written
C11_NoPairsEndsCleanly ==
    /\ (phase # "Discover" /\ image_pairs = <<>>) =>
          /\ phase = "Done"
          /\ noPairsMsg
          /\ failure = ""
          /\ calls = <<>>
          /\ writes = <<>>
          /\ files = InitialFiles
    /\ noPairsMsg => image_pairs = <<>>

\* C11 witness: a run over a tree with images, but no two in one folder,
\* ended with the message
C11_Witness ==
    /\ phase = "Done"
    /\ noPairsMsg
    /\ Cardinality(tree) >= 2
    /\ \E d \in Dirs : Cardinality(Qualifying(d)) = 1

WritesTo(d) == {i \in 1..Len(writes) : writes[i].folder = d}

CallsIn(d) == SelectSeq(calls, LAMBDA c : Folder(c.pair) = d)

\* C12: a run that ended normally wrote video_prompt.md once in every folder
\* that directly holds two or more qualifying images, after one call to each
\* of the backends for its pair, and neither called a backend for nor wrote
\* into any other folder
C12_OneReportPerPairFolder ==
    phase = "Done" =>
        \A d \in Dirs :
            IF Cardinality(Qualifying(d)) >= 2
            THEN /\ Cardinality(WritesTo(d)) = 1
                 /\ \A i \in WritesTo(d) : writes[i].ok
                 /\ files[d].exists
                 /\ ModelsOf(CallsIn(d)) = MODELS
            ELSE /\ WritesTo(d) = {}
                 /\ files[d] = InitialFiles[d]
                 /\ CallsIn(d) = <<>>

\* C12 witness: a run ended normally over a tree with a folder of two images
\* and a folder of one image
C12_Witness ==
    /\ phase = "Done"
    /\ \E d, e \in Dirs :
          /\ Cardinality(Qualifying(d)) = 2
          /\ Cardinality(Qualifying(e)) = 1
          /\ WritesTo(d) # {}
          /\ InitialFiles[e].exists

\* C13 (as claimed): with a root that is missing or cannot be listed the run
\* ends with an error raised to the caller, and without the message that no
\* pairs were found
C13_MissingRootRaises ==
    (~rootOk /\ phase # "Discover") => (phase = "Failed" /\ ~noPairsMsg)

(***************************************************************************)
(* Claims about process_data (SpecData)                                    *)
(***************************************************************************)
\* C14: a call with empty data raises and returns nothing; any other call
\* returns status "processed", the length of data as item_count, the config's
\* name (or "N/A" without a config) as config_name, and data[0] as first_item
C14_ProcessDataResult ==
    outcome # "idle" =>
        IF Len(data) = 0
        THEN outcome = "raised" /\ result = <<>>
        ELSE /\ outcome = "returned"
             /\ Len(result) = 1
             /\ result[1].status = "processed"
             /\ result[1].item_count = Len(data)
             /\ config # <<>> => result[1].config_name = config[1].name
             /\ config = <<>> => result[1].config_name = "N/A"
             /\ result[1].first_item = data[1]

\* C14 witness: a call with two items and no config returned
C14_Witness ==
    /\ outcome = "returned"
    /\ Len(data) = 2
    /\ data[1] # data[2]
    /\ config = <<>>

\* C15 (as claimed): after a call with debug=True, returned or raised, the
\* logger has the level it had before the call, and after any calls the level
\* it started with
C15_LevelRestored ==
    /\ (outcome # "idle" /\ debug) => loggerLevel = levelBefore
    /\ loggerLevel = level0

====
